---- MODULE Spec2Model ----
(***************************************************************************)
(* Model of the setup-k0s action (src/src/index.ts): the entry point run,  *)
(* the main phase (installK0s, startK0s, waitForClusterReady and           *)
(* showDiagnostics) and the hand-over to the cleanup phase.                *)
(*                                                                         *)
(* One action is one awaited step of the code (an exec, a timer, a file    *)
(* operation) together with the synchronous code that follows it up to the *)
(* next await.  A rejected await propagates synchronously through the      *)
(* catch/finally blocks up to run(), so a failing step is one action.      *)
(***************************************************************************)
EXTENDS Integers, Sequences, FiniteSets, TLC

\* ------------------------------------------------------------------ bounds
MaxCycles == 2      \* poll cycles explored before the model stops sleeping
MaxLines == 1       \* lines in a node / pod listing
MaxReleases == 1    \* upstream releases published while the run is going

\* ------------------------------------------------------- program constants
GraceMs == 10000    \* fixed wait for the kubeconfig (startK0s)
SleepMs == 5000     \* pause between two poll cycles
DefaultTimeout == <<"3", "0", "0">>
ProbeMs == {0, 600} \* how long one readiness probe may take

\* ------------------------------------------------------------- the inputs
VersionInputs == {"", "latest", "v1.30.0+k0s.0"}
WaitInputs == {"", "false", "true"}
TimeoutInputs == {<<>>, <<"0">>, <<"5">>, <<"-", "1">>, <<"a">>}
UnameOutputs == {"x86_64", "aarch64", "arm64", "armv7l", "riscv64"}
Releases == <<"v1.31.1+k0s.0", "v1.31.2+k0s.0">>
Umasks == {<<0, 2, 2>>, <<0, 7, 7>>}
NodeStatuses == {"Ready", "NotReady"}
PodStatuses == {"Running", "Completed", "Pending"}

Cmds == {"uname", "latest", "download", "install", "rm", "version",
         "ctl_install", "ctl_start", "kubeconfig", "chmod",
         "status", "cluster_info", "nodes", "pods",
         "diag_status", "diag_logs", "diag_cluster_info", "diag_nodes",
         "diag_pods", "cleanup"}

Probes == {"status", "cluster_info", "nodes", "pods"}

NotRun == 0 - 1     \* a probe result that does not exist in this cycle

VARIABLES
    pc,             \* position of the running invocation
    invocation,     \* 1: first start of the tool, 2: the post-run start
    isPost,         \* the state saved with core.saveState
    inVersion, inWait, inTimeout,   \* the action's raw inputs
    upstream,       \* index into Releases of the upstream latest release
    arch, binaryArch, actualVersion,    \* locals of installK0s
    resolved,       \* output captured by the latest-release lookup
    downloadUrl,    \* URL handed to the download command
    execCount,      \* how often each command was executed
    tmpFile,        \* TRUE when /tmp/k0s exists
    kubeMode,       \* permission digits of ~/.kube/config, <<>> when absent
    kubeWrites,     \* writes of ~/.kube/config
    outKubeconfig, envKubeconfig,   \* step output and exported variable
    startTime, now, elapsed, cycle, sleeps,     \* the poller's clock
    statusResult, kubectlResult, nodesReady, podsRunning,   \* one cycle
    nodeList, podList,      \* listings piped into grep in this cycle
    probedIn,       \* the cycle in which each probe was last executed
    result,         \* how the poller ended
    diagCalls, diagReturned, diagAttempted,     \* showDiagnostics
    warnings,       \* core.warning calls
    failures        \* core.setFailed calls: <<invocation, message>>

vars == <<pc, invocation, isPost, inVersion, inWait, inTimeout,
          upstream, arch, binaryArch, actualVersion, resolved, downloadUrl,
          execCount, tmpFile, kubeMode, kubeWrites, outKubeconfig,
          envKubeconfig, startTime, now, elapsed, cycle, sleeps,
          statusResult, kubectlResult, nodesReady, podsRunning, nodeList,
          podList, probedIn, result, diagCalls, diagReturned, diagAttempted, warnings,
          failures>>

inputVars == <<inVersion, inWait, inTimeout>>
installVars == <<arch, binaryArch, actualVersion, resolved, downloadUrl,
                 tmpFile>>
startVars == <<kubeMode, kubeWrites, outKubeconfig, envKubeconfig>>
clockVars == <<startTime, now, elapsed, cycle, sleeps>>
cycleVars == <<statusResult, kubectlResult, nodesReady, podsRunning,
               nodeList, podList>>
diagVars == <<diagCalls, diagReturned, diagAttempted, warnings>>

\* ------------------------------------------------------- pure functions

Digits == {"0", "1", "2", "3", "4", "5", "6", "7", "8", "9"}

DigitVal(c) ==
    CASE c = "0" -> 0 [] c = "1" -> 1 [] c = "2" -> 2 [] c = "3" -> 3
      [] c = "4" -> 4 [] c = "5" -> 5 [] c = "6" -> 6 [] c = "7" -> 7
      [] c = "8" -> 8 [] c = "9" -> 9

RECURSIVE ParseDigits(_, _, _)
ParseDigits(s, i, acc) ==
    IF i > Len(s) \/ s[i] \notin Digits
    THEN acc
    ELSE ParseDigits(s, i + 1, acc * 10 + DigitVal(s[i]))

\* parseInt(s, 10): optional sign, then the longest run of digits; NaN when
\* there is no digit.
ParseInt(s) ==
    LET signed == Len(s) > 0 /\ s[1] \in {"-", "+"}
        first == IF signed THEN 2 ELSE 1
    IN  IF first > Len(s) \/ s[first] \notin Digits
        THEN [nan |-> TRUE, val |-> 0]
        ELSE [nan |-> FALSE,
              val |-> IF signed /\ s[1] = "-"
                      THEN 0 - ParseDigits(s, first, 0)
                      ELSE ParseDigits(s, first, 0)]

\* variant of WaitForReadyOf: every value but 'false' asks for the poller
WaitForReadyUnlessFalse(raw) == raw # "false"

\* main: the three inputs as main reads them
VersionOf(raw) == IF raw = "" THEN "latest" ELSE raw
WaitForReadyOf(raw) == raw = "true"
TimeoutOf(raw) == ParseInt(IF raw = <<>> THEN DefaultTimeout ELSE raw)

version == VersionOf(inVersion)
waitForReady == WaitForReadyOf(inWait)
timeoutSeconds == TimeoutOf(inTimeout)

SupportedArchs == {"x86_64", "aarch64", "arm64", "armv7l"}

\* variant of MapArch: an unknown architecture falls back to amd64
MapArchFallback(a) ==
    CASE a = "x86_64" -> "amd64"
      [] a \in {"aarch64", "arm64"} -> "arm64"
      [] a = "armv7l" -> "arm"
      [] OTHER -> "amd64"

\* variant of MapArch: the case label for arm64 is missing
MapArchNoAlias(a) ==
    CASE a = "x86_64" -> "amd64"
      [] a = "aarch64" -> "arm64"
      [] a = "armv7l" -> "arm"
      [] OTHER -> "unsupported"

\* installK0s: the switch on the detected architecture
MapArch(a) ==
    CASE a = "x86_64" -> "amd64"
      [] a \in {"aarch64", "arm64"} -> "arm64"
      [] a = "armv7l" -> "arm"
      [] OTHER -> "unsupported"

\* variant of NeedsLookup: the version is resolved upstream in every run
NeedsLookupAlways(v) == TRUE

\* installK0s: whether the version has to be resolved upstream
NeedsLookup(v) == v = "latest"

\* installK0s: the download URL, as the values put into the template
DownloadUrl(v, b) == <<"releases/download", v, "k0s", v, b>>

\* variant of Elapsed: the milliseconds are divided by the wrong unit
ElapsedWrongUnit(t, start) == (t - start) \div 10000

\* Math.floor((Date.now() - startTime) / 1000)
Elapsed(t, start) == (t - start) \div 1000

\* variant of Exceeded: the deadline is hit as soon as elapsed equals it
ExceededInclusive(e, t) == (~t.nan) /\ e >= t.val

\* the deadline test; every comparison with NaN is false
Exceeded(e, t) == (~t.nan) /\ e > t.val

\* grep -v over a listing: 0 when some line lacks the pattern, 1 when no
\* line does; a failed listing command pipes no line at all
LinesOf(listing) == IF listing.ok THEN listing.lines ELSE <<>>

\* variant of GrepV: a failed listing counts as a line without the pattern
GrepVStrict(listing, matching) ==
    IF \/ ~listing.ok
       \/ \E i \in 1..Len(listing.lines) : listing.lines[i] \notin matching
    THEN 0 ELSE 1

GrepV(listing, matching) ==
    IF \E i \in 1..Len(LinesOf(listing)) : LinesOf(listing)[i] \notin matching
    THEN 0 ELSE 1

NodeMatch == {"Ready"}
PodMatch == {"Running", "Completed"}

\* variant of NodesPass: the node layer is taken as passed without a test
NodesPassAlways(rc) == TRUE

\* variant of ServicePass: the API is probed whatever the service says
ServicePassAlways(rc) == TRUE

\* the tests of the four layers
ServicePass(rc) == rc = 0
ApiPass(rc) == rc = 0
NodesPass(rc) == rc # 0
PodsPass(rc) == rc # 0

\* one octal permission digit of a new file: 6 & ~mask
BitAndNot(a, b) ==
    LET bit(x, k) == (x \div k) % 2
    IN  4 * (bit(a, 4) * (1 - bit(b, 4))) + 2 * (bit(a, 2) * (1 - bit(b, 2)))
        + (bit(a, 1) * (1 - bit(b, 1)))
CreateMode(mask) == [i \in 1..3 |-> BitAndNot(6, mask[i])]
Mode600 == <<6, 0, 0>>

KubeconfigPath == "<home>/.kube/config"

Listings(statuses) ==
    {[ok |-> FALSE, lines |-> <<>>]} \cup
    {[ok |-> TRUE, lines |-> l] :
        l \in UNION {[1..n -> statuses] : n \in 0..MaxLines}}
NoListing == [ok |-> FALSE, lines |-> <<"none">>]

\* `Failed to ...: ${error}`
Wrap(prefix, e) == <<prefix>> \o e

\* ------------------------------------------------------------ the steps

\* The history counters and the clock saturate: a counter at MaxCycles
\* reads 'MaxCycles or more', a clock at Horizon reads 'Horizon or later'.
\* A run of at most MaxCycles cycles never reaches either.
MaxProbe == CHOOSE d \in ProbeMs : \A e \in ProbeMs : e <= d
Horizon == GraceMs + MaxCycles * (SleepMs + 4 * MaxProbe)
Count(n) == IF n < MaxCycles THEN n + 1 ELSE n
Clock(t) == IF t < Horizon THEN t ELSE Horizon

Exec(cmd) == execCount' = [execCount EXCEPT ![cmd] = Count(@)]

ExecOutcomes == {"ok", "nonzero", "launchfail"}

\* variant of Fail: the error is swallowed without core.setFailed
FailSilently(msg) ==
    /\ pc' = "failed"
    /\ UNCHANGED failures

\* run: the catch block reports the error with core.setFailed
Fail(msg) ==
    /\ pc' = "failed"
    /\ failures' = Append(failures, <<invocation, msg>>)

ExecError(cmd) == <<"exec", cmd>>

Init ==
    /\ pc = "run"
    /\ invocation = 1
    /\ isPost = ""
    /\ inVersion \in VersionInputs
    /\ inWait \in WaitInputs
    /\ inTimeout \in TimeoutInputs
    /\ upstream = 1
    /\ arch = ""
    /\ binaryArch = ""
    /\ actualVersion = ""
    /\ resolved = ""
    /\ downloadUrl = <<>>
    /\ execCount = [c \in Cmds |-> 0]
    /\ tmpFile = FALSE
    /\ kubeMode \in {<<>>, <<6, 4, 4>>}
    /\ kubeWrites = 0
    /\ outKubeconfig = ""
    /\ envKubeconfig = ""
    /\ startTime = 0
    /\ now = 0
    /\ elapsed = 0
    /\ cycle = 0
    /\ sleeps = 0
    /\ statusResult = NotRun
    /\ kubectlResult = NotRun
    /\ nodesReady = NotRun
    /\ podsRunning = NotRun
    /\ nodeList = NoListing
    /\ podList = NoListing
    /\ probedIn = [p \in Probes |-> 0]
    /\ result = "none"
    /\ diagCalls = 0
    /\ diagReturned = FALSE
    /\ diagAttempted = {}
    /\ warnings = 0
    /\ failures = <<>>

\* variant of Run: the saved state is not consulted
RunAlwaysMain ==
    /\ pc = "run"
    /\ pc' = "main"
    /\ UNCHANGED <<invocation, isPost, inputVars, probedIn, upstream, installVars,
                   execCount, startVars, clockVars, cycleVars, result,
                   diagVars, failures>>

\* run: the phase is chosen by the saved state
Run ==
    /\ pc = "run"
    /\ pc' = IF isPost = "true" THEN "cleanup" ELSE "main"
    /\ UNCHANGED <<invocation, isPost, inputVars, probedIn, upstream, installVars,
                   execCount, startVars, clockVars, cycleVars, result,
                   diagVars, failures>>

\* variant of MainEntry: the marker is not saved on entry
MainEntryNoMarker ==
    /\ pc = "main"
    /\ pc' = "uname"
    /\ UNCHANGED <<invocation, isPost, inputVars, probedIn, upstream, installVars,
                   execCount, startVars, clockVars, cycleVars, result,
                   diagVars, failures>>

\* main: the marker is saved, then the inputs are read
MainEntry ==
    /\ pc = "main"
    /\ isPost' = "true"
    /\ pc' = "uname"
    /\ UNCHANGED <<invocation, inputVars, probedIn, upstream, installVars,
                   execCount, startVars, clockVars, cycleVars, result,
                   diagVars, failures>>

\* the post-run start of the tool: a new process, in which the locals, the
\* poller's clock and the bookkeeping of the first process do not exist;
\* the saved state, the files, the published values, the commands executed
\* and the failures reported remain
NextInvocation ==
    /\ pc \in {"done", "failed"}
    /\ invocation = 1
    /\ invocation' = 2
    /\ pc' = "run"
    /\ arch' = ""
    /\ binaryArch' = ""
    /\ actualVersion' = ""
    /\ startTime' = 0
    /\ elapsed' = 0
    /\ cycle' = 0
    /\ sleeps' = 0
    /\ statusResult' = NotRun
    /\ kubectlResult' = NotRun
    /\ nodesReady' = NotRun
    /\ podsRunning' = NotRun
    /\ nodeList' = NoListing
    /\ podList' = NoListing
    /\ probedIn' = [p \in Probes |-> 0]
    /\ result' = "none"
    /\ diagCalls' = 0
    /\ diagReturned' = FALSE
    /\ diagAttempted' = {}
    /\ warnings' = 0
    /\ UNCHANGED <<isPost, inputVars, upstream, resolved, downloadUrl,
                   tmpFile, execCount, startVars, now, failures>>

\* cleanup: the teardown of the installed service
Cleanup ==
    /\ pc = "cleanup"
    /\ Exec("cleanup")
    /\ \E o \in ExecOutcomes :
          IF o = "ok"
          THEN pc' = "done" /\ UNCHANGED failures
          ELSE Fail(ExecError("cleanup"))
    /\ UNCHANGED <<invocation, isPost, inputVars, probedIn, upstream, installVars,
                   startVars, clockVars, cycleVars, result, diagVars>>

\* the upstream project publishes a release while the install is going on
UpstreamRelease ==
    /\ pc \in {"uname", "resolve", "download", "install", "rm", "version"}
    /\ upstream < Len(Releases)
    /\ upstream <= MaxReleases
    /\ upstream' = upstream + 1
    /\ UNCHANGED <<pc, invocation, isPost, inputVars, probedIn, installVars,
                   execCount,
                   startVars, clockVars, cycleVars, result, diagVars,
                   failures>>

\* ------------------------------------------------------------- installK0s

InstallError(e) == Wrap("Failed to install k0s", e)

\* uname -m, the architecture switch and, for an explicit tag, the version
Uname ==
    /\ pc = "uname"
    /\ Exec("uname")
    /\ \E o \in ExecOutcomes :
          IF o # "ok"
          THEN /\ Fail(InstallError(ExecError("uname")))
               /\ UNCHANGED <<arch, binaryArch, actualVersion>>
          ELSE \E a \in UnameOutputs :
                 /\ arch' = a
                 /\ IF MapArch(a) = "unsupported"
                    THEN /\ Fail(InstallError(<<"Unsupported architecture", a>>))
                         /\ UNCHANGED <<binaryArch, actualVersion>>
                    ELSE /\ binaryArch' = MapArch(a)
                         /\ UNCHANGED failures
                         /\ IF NeedsLookup(version)
                            THEN pc' = "resolve" /\ UNCHANGED actualVersion
                            ELSE pc' = "download" /\ actualVersion' = version
    /\ UNCHANGED <<invocation, isPost, inputVars, probedIn, upstream, resolved,
                   downloadUrl, tmpFile, startVars, clockVars, cycleVars,
                   result, diagVars>>

\* the latest-release lookup; the pipeline ends in cut, so a failing curl
\* yields an empty tag with exit code 0
ResolveLatest ==
    /\ pc = "resolve"
    /\ Exec("latest")
    /\ \E o \in ExecOutcomes :
          IF o # "ok"
          THEN /\ Fail(InstallError(ExecError("latest")))
               /\ UNCHANGED <<resolved, actualVersion>>
          ELSE \E tag \in {Releases[upstream], ""} :
                 /\ resolved' = tag
                 /\ actualVersion' = tag
                 /\ pc' = "download"
                 /\ UNCHANGED failures
    /\ UNCHANGED <<invocation, isPost, inputVars, probedIn, upstream, arch, binaryArch,
                   downloadUrl, tmpFile, startVars, clockVars, cycleVars,
                   result, diagVars>>

\* the URL is built and the binary downloaded to /tmp/k0s
Download ==
    /\ pc = "download"
    /\ downloadUrl' = DownloadUrl(actualVersion, binaryArch)
    /\ Exec("download")
    /\ \E o \in ExecOutcomes :
          IF o = "ok"
          THEN pc' = "install" /\ tmpFile' = TRUE /\ UNCHANGED failures
          ELSE /\ Fail(InstallError(ExecError("download")))
               /\ tmpFile' \in {tmpFile, o = "nonzero"}
    /\ UNCHANGED <<invocation, isPost, inputVars, probedIn, upstream, arch, binaryArch,
                   actualVersion, resolved, startVars, clockVars, cycleVars,
                   result, diagVars>>

\* sudo install /tmp/k0s /usr/local/bin/k0s
SudoInstall ==
    /\ pc = "install"
    /\ Exec("install")
    /\ \E o \in ExecOutcomes :
          IF o = "ok"
          THEN pc' = "rm" /\ UNCHANGED failures
          ELSE Fail(InstallError(ExecError("install")))
    /\ UNCHANGED <<invocation, isPost, inputVars, probedIn, upstream, installVars,
                   startVars, clockVars, cycleVars, result, diagVars>>

\* rm -f /tmp/k0s
RmTmp ==
    /\ pc = "rm"
    /\ Exec("rm")
    /\ \E o \in ExecOutcomes :
          IF o = "ok"
          THEN pc' = "version" /\ tmpFile' = FALSE /\ UNCHANGED failures
          ELSE Fail(InstallError(ExecError("rm"))) /\ UNCHANGED tmpFile
    /\ UNCHANGED <<invocation, isPost, inputVars, probedIn, upstream, arch, binaryArch,
                   actualVersion, resolved, downloadUrl, startVars, clockVars,
                   cycleVars, result, diagVars>>

\* variant of VerifyInstall: a failed verification is reported and the run
\* goes on
VerifyInstallLenient ==
    /\ pc = "version"
    /\ Exec("version")
    /\ \E o \in ExecOutcomes :
          IF o = "ok"
          THEN /\ pc' = "ctl_install"
               /\ arch' = ""
               /\ binaryArch' = ""
               /\ actualVersion' = ""
               /\ UNCHANGED failures
          ELSE /\ pc' = "ctl_install"
               /\ failures' = Append(failures,
                     <<invocation, InstallError(ExecError("version"))>>)
               /\ UNCHANGED <<arch, binaryArch, actualVersion>>
    /\ UNCHANGED <<invocation, isPost, inputVars, probedIn, upstream, resolved,
                   downloadUrl, tmpFile, startVars, clockVars, cycleVars,
                   result, diagVars>>

\* k0s version; on success installK0s returns and its locals are gone
VerifyInstall ==
    /\ pc = "version"
    /\ Exec("version")
    /\ \E o \in ExecOutcomes :
          IF o = "ok"
          THEN /\ pc' = "ctl_install"
               /\ arch' = ""
               /\ binaryArch' = ""
               /\ actualVersion' = ""
               /\ UNCHANGED failures
          ELSE /\ Fail(InstallError(ExecError("version")))
               /\ UNCHANGED <<arch, binaryArch, actualVersion>>
    /\ UNCHANGED <<invocation, isPost, inputVars, probedIn, upstream, resolved,
                   downloadUrl, tmpFile, startVars, clockVars, cycleVars,
                   result, diagVars>>

\* --------------------------------------------------------------- startK0s

StartError(e) == Wrap("Failed to start k0s", e)

\* sudo k0s install controller --single
CtlInstall ==
    /\ pc = "ctl_install"
    /\ Exec("ctl_install")
    /\ \E o \in ExecOutcomes :
          IF o = "ok"
          THEN pc' = "ctl_start" /\ UNCHANGED failures
          ELSE Fail(StartError(ExecError("ctl_install")))
    /\ UNCHANGED <<invocation, isPost, inputVars, probedIn, upstream, installVars,
                   startVars, clockVars, cycleVars, result, diagVars>>

\* sudo k0s start
CtlStart ==
    /\ pc = "ctl_start"
    /\ Exec("ctl_start")
    /\ \E o \in ExecOutcomes :
          IF o = "ok"
          THEN pc' = "grace" /\ UNCHANGED failures
          ELSE Fail(StartError(ExecError("ctl_start")))
    /\ UNCHANGED <<invocation, isPost, inputVars, probedIn, upstream, installVars,
                   startVars, clockVars, cycleVars, result, diagVars>>

\* the fixed wait for the kubeconfig
GraceWait ==
    /\ pc = "grace"
    /\ now' = Clock(now + GraceMs)
    /\ pc' = "mkdir"
    /\ UNCHANGED <<invocation, isPost, inputVars, probedIn, upstream, installVars,
                   execCount, startVars, startTime, elapsed, cycle, sleeps,
                   cycleVars, result, diagVars, failures>>

\* fs.mkdir of ~/.kube; an error is swallowed
Mkdir ==
    /\ pc = "mkdir"
    /\ pc' = "kubeconfig"
    /\ UNCHANGED <<invocation, isPost, inputVars, probedIn, upstream, installVars,
                   execCount, startVars, clockVars, cycleVars, result,
                   diagVars, failures>>

\* sudo k0s kubeconfig admin
KubeconfigAdmin ==
    /\ pc = "kubeconfig"
    /\ Exec("kubeconfig")
    /\ \E o \in ExecOutcomes :
          IF o = "ok"
          THEN pc' = "write" /\ UNCHANGED failures
          ELSE Fail(StartError(ExecError("kubeconfig")))
    /\ UNCHANGED <<invocation, isPost, inputVars, probedIn, upstream, installVars,
                   startVars, clockVars, cycleVars, result, diagVars>>

\* fs.writeFile of ~/.kube/config: a new file gets 666 & ~umask, an existing
\* file keeps its mode
WriteKubeconfig ==
    /\ pc = "write"
    /\ \E ok \in BOOLEAN, umask \in Umasks :
          IF ok
          THEN /\ kubeMode' = IF kubeMode = <<>> THEN CreateMode(umask)
                              ELSE kubeMode
               /\ kubeWrites' = kubeWrites + 1
               /\ pc' = "chmod"
               /\ UNCHANGED failures
          ELSE /\ Fail(StartError(<<"writeFile">>))
               /\ UNCHANGED <<kubeMode, kubeWrites>>
    /\ UNCHANGED <<invocation, isPost, inputVars, probedIn, upstream, installVars,
                   execCount, outKubeconfig, envKubeconfig, clockVars,
                   cycleVars, result, diagVars>>

\* variant of Chmod: the path is published whether chmod succeeded or not
ChmodPublishAnyway ==
    /\ pc = "chmod"
    /\ Exec("chmod")
    /\ \E o \in ExecOutcomes :
          IF o = "ok"
          THEN /\ kubeMode' = Mode600
               /\ outKubeconfig' = KubeconfigPath
               /\ envKubeconfig' = KubeconfigPath
               /\ pc' = "after_start"
               /\ UNCHANGED failures
          ELSE /\ Fail(StartError(ExecError("chmod")))
               /\ outKubeconfig' = KubeconfigPath
               /\ envKubeconfig' = KubeconfigPath
               /\ UNCHANGED kubeMode
    /\ UNCHANGED <<invocation, isPost, inputVars, probedIn, upstream, installVars,
                   kubeWrites, clockVars, cycleVars, result, diagVars>>

\* chmod 600, then the path is published and startK0s returns
Chmod ==
    /\ pc = "chmod"
    /\ Exec("chmod")
    /\ \E o \in ExecOutcomes :
          IF o = "ok"
          THEN /\ kubeMode' = Mode600
               /\ outKubeconfig' = KubeconfigPath
               /\ envKubeconfig' = KubeconfigPath
               /\ pc' = "after_start"
               /\ UNCHANGED failures
          ELSE /\ Fail(StartError(ExecError("chmod")))
               /\ UNCHANGED <<kubeMode, outKubeconfig, envKubeconfig>>
    /\ UNCHANGED <<invocation, isPost, inputVars, probedIn, upstream, installVars,
                   kubeWrites, clockVars, cycleVars, result, diagVars>>

\* main after startK0s: the poller is entered (startTime is taken) or main
\* is done
AfterStart ==
    /\ pc = "after_start"
    /\ IF waitForReady
       THEN pc' = "deadline" /\ startTime' = now
       ELSE pc' = "done" /\ UNCHANGED startTime
    /\ UNCHANGED <<invocation, isPost, inputVars, probedIn, upstream, installVars,
                   execCount, startVars, now, elapsed, cycle, sleeps,
                   cycleVars, result, diagVars, failures>>

\* ---------------------------------------------------- waitForClusterReady

WaitError(e) == Wrap("Failed waiting for cluster", e)
TimeoutMessage == <<"Timeout waiting for cluster to be ready">>

\* variant of TimeoutBranch: the error is thrown without diagnostics
TimeoutBranchNoDiag ==
    /\ result' = "TimedOut"
    /\ pc' = "throw_timeout"
    /\ UNCHANGED <<diagCalls>>

\* the deadline is exceeded: showDiagnostics is called
TimeoutBranch ==
    /\ result' = "TimedOut"
    /\ diagCalls' = diagCalls + 1
    /\ pc' = "diag_status"

\* top of the loop: a new cycle with new probe results, elapsed is computed
\* and compared with the timeout
DeadlineCheck ==
    /\ pc = "deadline"
    /\ cycle' = Count(cycle)
    /\ elapsed' = Elapsed(now, startTime)
    /\ statusResult' = NotRun
    /\ kubectlResult' = NotRun
    /\ nodesReady' = NotRun
    /\ podsRunning' = NotRun
    /\ nodeList' = NoListing
    /\ podList' = NoListing
    /\ IF Exceeded(elapsed', timeoutSeconds)
       THEN TimeoutBranch
       ELSE pc' = "status" /\ UNCHANGED <<result, diagCalls>>
    /\ UNCHANGED <<invocation, isPost, inputVars, probedIn, upstream, installVars,
                   execCount, startVars, startTime, now, sleeps,
                   diagReturned, diagAttempted, warnings, failures>>

\* sudo k0s status
StatusProbe ==
    /\ pc = "status"
    /\ Exec("status")
    /\ probedIn' = [probedIn EXCEPT !["status"] = cycle]
    /\ \E d \in ProbeMs : now' = Clock(now + d)
    /\ \E o \in {0, 1, NotRun} :
          IF o = NotRun
          THEN Fail(WaitError(ExecError("status"))) /\ UNCHANGED statusResult
          ELSE /\ statusResult' = o
               /\ pc' = IF ServicePass(o) THEN "cluster_info" ELSE "sleep"
               /\ UNCHANGED failures
    /\ UNCHANGED <<invocation, isPost, inputVars, upstream, installVars,
                   startVars, startTime, elapsed, cycle, sleeps,
                   kubectlResult, nodesReady, podsRunning, nodeList, podList,
                   result, diagVars>>

\* kubectl cluster-info
ApiProbe ==
    /\ pc = "cluster_info"
    /\ Exec("cluster_info")
    /\ probedIn' = [probedIn EXCEPT !["cluster_info"] = cycle]
    /\ \E d \in ProbeMs : now' = Clock(now + d)
    /\ \E o \in {0, 1, NotRun} :
          IF o = NotRun
          THEN /\ Fail(WaitError(ExecError("cluster_info")))
               /\ UNCHANGED kubectlResult
          ELSE /\ kubectlResult' = o
               /\ pc' = IF ApiPass(o) THEN "nodes" ELSE "sleep"
               /\ UNCHANGED failures
    /\ UNCHANGED <<invocation, isPost, inputVars, upstream, installVars,
                   startVars, startTime, elapsed, cycle, sleeps,
                   statusResult, nodesReady, podsRunning, nodeList, podList,
                   result, diagVars>>

\* kubectl get nodes --no-headers | grep -v " Ready "
NodeProbe ==
    /\ pc = "nodes"
    /\ Exec("nodes")
    /\ probedIn' = [probedIn EXCEPT !["nodes"] = cycle]
    /\ \E d \in ProbeMs : now' = Clock(now + d)
    /\ \/ /\ Fail(WaitError(ExecError("nodes")))
          /\ UNCHANGED <<nodesReady, nodeList>>
       \/ \E l \in Listings(NodeStatuses) :
             /\ nodeList' = l
             /\ nodesReady' = GrepV(l, NodeMatch)
             /\ pc' = IF NodesPass(nodesReady') THEN "pods" ELSE "sleep"
             /\ UNCHANGED failures
    /\ UNCHANGED <<invocation, isPost, inputVars, upstream, installVars,
                   startVars, startTime, elapsed, cycle, sleeps,
                   statusResult, kubectlResult, podsRunning, podList,
                   result, diagVars>>

\* kubectl get pods -n kube-system --no-headers | grep -v "Running\|Completed"
\* when it passes the loop is left and main returns
PodProbe ==
    /\ pc = "pods"
    /\ Exec("pods")
    /\ probedIn' = [probedIn EXCEPT !["pods"] = cycle]
    /\ \E d \in ProbeMs : now' = Clock(now + d)
    /\ \/ /\ Fail(WaitError(ExecError("pods")))
          /\ UNCHANGED <<podsRunning, podList, result>>
       \/ \E l \in Listings(PodStatuses) :
             /\ podList' = l
             /\ podsRunning' = GrepV(l, PodMatch)
             /\ IF PodsPass(podsRunning')
                THEN pc' = "done" /\ result' = "Ready"
                ELSE pc' = "sleep" /\ UNCHANGED result
             /\ UNCHANGED failures
    /\ UNCHANGED <<invocation, isPost, inputVars, upstream, installVars,
                   startVars, startTime, elapsed, cycle, sleeps,
                   statusResult, kubectlResult, nodesReady, nodeList,
                   diagVars>>

\* the pause that ends a cycle that did not find the cluster ready
Sleep ==
    /\ pc = "sleep"
    /\ cycle < MaxCycles
    /\ now' = Clock(now + SleepMs)
    /\ sleeps' = Count(sleeps)
    /\ pc' = "deadline"
    /\ UNCHANGED <<invocation, isPost, inputVars, probedIn, upstream, installVars,
                   execCount, startVars, startTime, elapsed, cycle,
                   cycleVars, result, diagVars, failures>>

\* the same pause with no limit on the number of cycles
SleepOn ==
    /\ pc = "sleep"
    /\ now' = Clock(now + SleepMs)
    /\ sleeps' = Count(sleeps)
    /\ pc' = "deadline"
    /\ UNCHANGED <<invocation, isPost, inputVars, probedIn, upstream,
                   installVars, execCount, startVars, startTime, elapsed,
                   cycle, cycleVars, result, diagVars, failures>>

\* -------------------------------------------------------- showDiagnostics

DiagOrder == <<"diag_status", "diag_logs", "diag_cluster_info", "diag_nodes",
               "diag_pods">>
DiagIndex(cmd) == CHOOSE i \in 1..Len(DiagOrder) : DiagOrder[i] = cmd

\* variant of DiagCatch: the diagnostics error is thrown on
DiagCatchRethrow ==
    /\ diagReturned' = FALSE
    /\ Fail(<<"Failed to gather diagnostics">>)
    /\ UNCHANGED warnings

\* the catch block of showDiagnostics: a warning, and the function returns
DiagCatch ==
    /\ warnings' = warnings + 1
    /\ diagReturned' = TRUE
    /\ pc' = "throw_timeout"
    /\ UNCHANGED failures

\* one of the five diagnostic commands, run with ignoreReturnCode
DiagProbe(cmd) ==
    /\ pc = cmd
    /\ Exec(cmd)
    /\ diagAttempted' = diagAttempted \cup {cmd}
    /\ \E o \in ExecOutcomes :
          IF o = "launchfail"
          THEN DiagCatch
          ELSE /\ UNCHANGED <<warnings, failures>>
               /\ IF DiagIndex(cmd) < Len(DiagOrder)
                  THEN /\ pc' = DiagOrder[DiagIndex(cmd) + 1]
                       /\ UNCHANGED diagReturned
                  ELSE /\ pc' = "throw_timeout"
                       /\ diagReturned' = TRUE
    /\ UNCHANGED <<invocation, isPost, inputVars, probedIn, upstream, installVars,
                   startVars, clockVars, cycleVars, result, diagCalls>>

DiagStatus == DiagProbe("diag_status")
DiagLogs == DiagProbe("diag_logs")
DiagClusterInfo == DiagProbe("diag_cluster_info")
DiagNodes == DiagProbe("diag_nodes")
DiagPods == DiagProbe("diag_pods")

\* waitForClusterReady after showDiagnostics returned: the timeout error
ThrowTimeout ==
    /\ pc = "throw_timeout"
    /\ Fail(WaitError(TimeoutMessage))
    /\ UNCHANGED <<invocation, isPost, inputVars, probedIn, upstream, installVars,
                   execCount, startVars, clockVars, cycleVars, result,
                   diagVars>>

\* ------------------------------------------------------- the specification

Next ==
    \/ Run
    \/ MainEntry
    \/ NextInvocation
    \/ Cleanup
    \/ UpstreamRelease
    \/ Uname
    \/ ResolveLatest
    \/ Download
    \/ SudoInstall
    \/ RmTmp
    \/ VerifyInstall
    \/ CtlInstall
    \/ CtlStart
    \/ GraceWait
    \/ Mkdir
    \/ KubeconfigAdmin
    \/ WriteKubeconfig
    \/ Chmod
    \/ AfterStart
    \/ DeadlineCheck
    \/ StatusProbe
    \/ ApiProbe
    \/ NodeProbe
    \/ PodProbe
    \/ Sleep
    \/ DiagStatus
    \/ DiagLogs
    \/ DiagClusterInfo
    \/ DiagNodes
    \/ DiagPods
    \/ ThrowTimeout

Spec == Init /\ [][Next]_vars

\* The poller without a limit on its cycles, every step eventually taken:
\* time advances and each command, timer and file operation returns.  The
\* default timeout lies beyond the clock's horizon and is left out; the
\* poller is requested.
LiveInit ==
    /\ Init
    /\ inTimeout # <<>>
    /\ inWait = "true"
    /\ inVersion # ""

LiveNext ==
    \/ Run
    \/ MainEntry
    \/ NextInvocation
    \/ Cleanup
    \/ UpstreamRelease
    \/ Uname
    \/ ResolveLatest
    \/ Download
    \/ SudoInstall
    \/ RmTmp
    \/ VerifyInstall
    \/ CtlInstall
    \/ CtlStart
    \/ GraceWait
    \/ Mkdir
    \/ KubeconfigAdmin
    \/ WriteKubeconfig
    \/ Chmod
    \/ AfterStart
    \/ DeadlineCheck
    \/ StatusProbe
    \/ ApiProbe
    \/ NodeProbe
    \/ PodProbe
    \/ SleepOn
    \/ DiagStatus
    \/ DiagLogs
    \/ DiagClusterInfo
    \/ DiagNodes
    \/ DiagPods
    \/ ThrowTimeout

LiveSpec == LiveInit /\ [][LiveNext]_vars /\ WF_vars(LiveNext)

TypeOK ==
    /\ invocation \in 1..2
    /\ isPost \in {"", "true"}
    /\ cycle \in 0..(MaxCycles + 1)
    /\ kubeWrites \in 0..1
    /\ result \in {"none", "Ready", "TimedOut"}

\* ------------------------------------------------------------- the claims

FirstRun == invocation = 1
TimeoutIsZero == (~timeoutSeconds.nan) /\ timeoutSeconds.val = 0
MainCmds == Cmds \ {"cleanup"}
DiagPcs == {"diag_status", "diag_logs", "diag_cluster_info", "diag_nodes",
            "diag_pods"}
InInstall == pc \in {"uname", "resolve", "download", "install", "rm",
                     "version"}

\* C1: the poller reports Ready only when the four probes were all executed
\* in the cycle that reports it and all four passed in that cycle: k0s
\* status 0, cluster-info 0, node check non-zero, pod check non-zero.
C1_ReadyOnlyInFullyPassedCycle ==
    result = "Ready" =>
        /\ \A p \in Probes : probedIn[p] = cycle
        /\ statusResult = 0
        /\ kubectlResult = 0
        /\ nodesReady \notin {0, NotRun}
        /\ podsRunning \notin {0, NotRun}

\* Ready in the second cycle, after a first cycle in which the nodes passed
\* and the pods failed
C1_Witness ==
    /\ result = "Ready"
    /\ cycle = 2
    /\ execCount["nodes"] = 2
    /\ execCount["pods"] = 2

\* C2: whenever a command of the main phase has been executed, and whenever
\* the first invocation has failed, the marker isPost = 'true' is saved.
C2_MarkerBeforeAnyCommand ==
    /\ (\E c \in MainCmds : execCount[c] > 0) => isPost = "true"
    /\ (FirstRun /\ pc = "failed") => isPost = "true"
    /\ InInstall => isPost = "true"

\* installK0s failed at the download, the marker is saved
C2_Witness ==
    /\ FirstRun
    /\ pc = "failed"
    /\ execCount["download"] = 1
    /\ execCount["install"] = 0
    /\ isPost = "true"

\* C3: once uname -m has reported an architecture outside x86_64, aarch64,
\* arm64, armv7l, the run has failed with the wrapped 'Unsupported
\* architecture' error and no command but uname was ever executed in it.
C3_UnsupportedArchFailsBeforeNetwork ==
    (arch # "" /\ arch \notin {"x86_64", "aarch64", "arm64", "armv7l"}) =>
        /\ failures # <<>>
        /\ failures[1] =
             <<1, <<"Failed to install k0s", "Unsupported architecture", arch>>>>
        /\ \A c \in MainCmds \ {"uname"} : execCount[c] = 0
        /\ execCount["uname"] = 1
        /\ downloadUrl = <<>>

C3_Witness ==
    /\ arch = "riscv64"
    /\ pc = "failed"
    /\ Len(failures) = 1

C5_TimedOutAtFirstCheck ==
    (TimeoutIsZero /\ result = "TimedOut") =>
        /\ cycle = 1
        /\ \A p \in Probes : execCount[p] = 0
        /\ sleeps = 0

\* C5 amended: with timeout 0 the first deadline check passes (elapsed 0 is
\* not greater than 0); the poller is TimedOut at its second deadline check,
\* after the service probe of the first cycle and one sleep.
C5_TimedOutAtSecondCheck ==
    TimeoutIsZero =>
        /\ (cycle = 1 => result # "TimedOut")
        /\ (cycle >= 2 => result = "TimedOut" /\ cycle = 2)
        /\ result = "TimedOut" =>
              /\ execCount["status"] = 1
              /\ sleeps = 1
              /\ elapsed >= 5

C5_Witness ==
    /\ TimeoutIsZero
    /\ result = "TimedOut"
    /\ cycle = 2
    /\ statusResult = NotRun
    /\ probedIn["status"] = 1

\* C6: showDiagnostics is called at most once; a poller that is TimedOut has
\* called it exactly once and it has returned by the time the timeout error
\* is raised; a poller that ended Ready never called it.
C6_DiagnosticsExactlyOnceOnTimeout ==
    /\ diagCalls <= 1
    /\ result = "TimedOut" => diagCalls = 1
    /\ (result = "TimedOut" /\ failures # <<>>) => diagReturned
    /\ (result = "TimedOut" /\ pc = "throw_timeout") => diagReturned
    /\ result # "TimedOut" =>
          diagCalls = 0 /\ diagAttempted = {} /\ ~diagReturned

C6_Witness ==
    /\ result = "TimedOut"
    /\ pc = "failed"
    /\ diagCalls = 1
    /\ diagReturned
    /\ diagAttempted = DiagPcs

\* C7: when showDiagnostics has returned, all five diagnostic probes were
\* attempted, however the earlier ones ended.
C7_AllDiagnosticsAttempted ==
    diagReturned => diagAttempted = DiagPcs

\* C8: after a timeout the one failure the first invocation reports is the
\* wrapped timeout error, whatever happened in showDiagnostics; until it is
\* raised nothing else is reported.
C8_TimeoutErrorSurvivesDiagnostics ==
    result = "TimedOut" =>
        IF FirstRun /\ pc \in DiagPcs \cup {"throw_timeout"}
        THEN failures = <<>>
        ELSE /\ failures # <<>>
             /\ failures[1] = <<1, <<"Failed waiting for cluster",
                                     "Timeout waiting for cluster to be ready">>>>
             /\ \A i \in 2..Len(failures) : failures[i][1] # 1

\* a diagnostic probe failed to launch and the timeout error was reported
C8_Witness ==
    /\ result = "TimedOut"
    /\ warnings = 1
    /\ diagAttempted # DiagPcs
    /\ Len(failures) = 1
    /\ pc = "failed"

\* C9: when installK0s has returned or thrown after reaching the download,
\* rm -f /tmp/k0s has been executed.
C9_TmpFileRemovedOnEveryPath ==
    (execCount["download"] > 0 /\ pc \notin {"install", "rm"}) =>
        execCount["rm"] >= 1

\* C10: a written credential file has mode 600 in every state, and it is
\* written at most once.
C10_CredentialAlwaysOwnerOnly ==
    /\ kubeWrites <= 1
    /\ kubeWrites > 0 => kubeMode = <<6, 0, 0>>

PollPcs == {"deadline", "status", "cluster_info", "nodes", "pods", "sleep"}
TimeoutIsNaN == timeoutSeconds.nan

\* C11: for every timeout value, one that does not parse included, a poller
\* that is polling eventually leaves the loop.
C11_PollerTerminates ==
    [](pc \in PollPcs => <>(pc \notin PollPcs))

\* the same for the timeouts that parse as an integer
PollerTerminatesWhenParsed ==
    []((pc \in PollPcs /\ ~TimeoutIsNaN) => <>(pc \notin PollPcs))

ProbePcs == {"status", "cluster_info", "nodes", "pods"}

\* C12 as stated: when the poller returns Ready, the time since it started
\* is at most timeoutSeconds.
C12_ReadyWithinTimeout ==
    (result = "Ready" /\ ~timeoutSeconds.nan) =>
        now - startTime <= timeoutSeconds.val * 1000

\* C12 amended: the deadline is tested once per cycle, on the whole seconds
\* elapsed at the top of the cycle.  A cycle probes, and can return Ready,
\* only if that test did not find elapsed > timeoutSeconds, so Ready comes
\* at most one cycle's probes after the deadline; a cycle whose test finds
\* elapsed > timeoutSeconds ends TimedOut with diagnostics, never Ready.
C12_ReadyOnlyInCycleWithinDeadline ==
    /\ pc = "status" =>
          /\ elapsed * 1000 <= now - startTime
          /\ now - startTime < (elapsed + 1) * 1000
    /\ (pc \in ProbePcs \/ result = "Ready") =>
          (timeoutSeconds.nan \/ elapsed <= timeoutSeconds.val)
    /\ (result = "Ready" /\ ~timeoutSeconds.nan) =>
          now - startTime < (timeoutSeconds.val + 1) * 1000 + 4 * MaxProbe
    /\ result = "TimedOut" =>
          /\ ~timeoutSeconds.nan
          /\ elapsed > timeoutSeconds.val
          /\ diagCalls = 1

\* Ready in the second cycle of a 5-second timeout, more than 5 s after the
\* start
C12_Witness ==
    /\ result = "Ready"
    /\ ~timeoutSeconds.nan
    /\ timeoutSeconds.val = 5
    /\ cycle = 2
    /\ elapsed = 5
    /\ now - startTime > 5000

ReportedBy(i) == {k \in 1..Len(failures) : failures[k][1] = i}
MainPrefixes == {"Failed to install k0s", "Failed to start k0s",
                 "Failed waiting for cluster"}

\* C13: an invocation whose phase failed has made exactly one setFailed
\* call, carrying the message of the error (for the main phase: the wrapper
\* of the failed step around its cause); an invocation that is running or
\* has succeeded has made none.
C13_EveryFailureReportedOnce ==
    /\ \A i \in 1..2 : Cardinality(ReportedBy(i)) <= 1
    /\ ReportedBy(invocation) # {} <=> pc = "failed"
    /\ \A k \in ReportedBy(1) :
          /\ Len(failures[k][2]) >= 2
          /\ failures[k][2][1] \in MainPrefixes
    /\ \A k \in 1..Len(failures) : failures[k][2] # <<>>

\* startK0s failed at the extraction of the kubeconfig and run reported it
C13_Witness ==
    /\ FirstRun
    /\ pc = "failed"
    /\ failures = <<<<1, <<"Failed to start k0s", "exec", "kubeconfig">>>>>>

OnceCmds == {"uname", "latest", "download", "install", "rm", "version",
             "ctl_install", "ctl_start", "kubeconfig", "chmod"}

\* C14: the first invocation finds no marker, runs main and never cleanup;
\* the next invocation finds isPost = 'true', whatever became of main, and
\* runs cleanup only: no step of the main phase is executed a second time.
C14_MainOnceThenCleanup ==
    /\ FirstRun => execCount["cleanup"] = 0 /\ pc # "cleanup"
    /\ invocation = 2 =>
          /\ isPost = "true"
          /\ pc \in {"run", "cleanup", "done", "failed"}
    /\ \A c \in OnceCmds : execCount[c] <= 1
    /\ execCount["cleanup"] <= 1
    /\ execCount["cleanup"] = 1 => invocation = 2 /\ pc \in {"done", "failed"}

\* main failed at the download, and the next invocation ran cleanup
C14_Witness ==
    /\ invocation = 2
    /\ pc = "done"
    /\ execCount["cleanup"] = 1
    /\ execCount["download"] = 1
    /\ failures = <<<<1, <<"Failed to install k0s", "exec", "download">>>>>>

\* C15: each of the four supported architectures gets its token (x86_64:
\* amd64, aarch64 and arm64: arm64, armv7l: arm), and the architecture field
\* of the download URL is the token of the detected architecture.
C15_ArchitectureMapping ==
    /\ arch = "x86_64" => binaryArch = "amd64"
    /\ arch = "aarch64" => binaryArch = "arm64"
    /\ arch = "arm64" => binaryArch = "arm64"
    /\ arch = "armv7l" => binaryArch = "arm"
    /\ downloadUrl # <<>> => downloadUrl[5] \in {"amd64", "arm64", "arm"}
    /\ (downloadUrl # <<>> /\ arch # "") =>
          /\ arch \in {"x86_64", "aarch64", "arm64", "armv7l"}
          /\ downloadUrl[5] = binaryArch

\* arm64 detected and the arm64 binary downloaded
C15_Witness ==
    /\ arch = "arm64"
    /\ pc = "install"
    /\ downloadUrl[5] = "arm64"

MainOrder == <<"uname", "download", "install", "rm", "version",
               "ctl_install", "ctl_start", "kubeconfig", "chmod">>
FailedAt(c) ==
    \E k \in ReportedBy(1) : failures[k][2] = <<failures[k][2][1], "exec", c>>
InstallSteps == {"uname", "download", "install", "rm", "version"}
StartSteps == {"ctl_install", "ctl_start", "kubeconfig", "chmod"}
PollerTouched ==
    \/ cycle > 0
    \/ result # "none"
    \/ \E p \in Probes : execCount[p] > 0

\* C16: the commands of install and start run in their fixed order, each at
\* most once; a start command has run only after every install command
\* succeeded, the poller only after every start step succeeded; and after a
\* failed command the next command of the order (hence, by the order, every
\* later one) and the probes have not run.
C16_FixedOrderNoRetry ==
    /\ \A i \in 1..Len(MainOrder) : execCount[MainOrder[i]] <= 1
    /\ execCount["latest"] <= 1
    /\ \A i \in 1..(Len(MainOrder) - 1) :
          /\ execCount[MainOrder[i + 1]] > 0 => execCount[MainOrder[i]] = 1
          /\ FailedAt(MainOrder[i]) => execCount[MainOrder[i + 1]] = 0
    /\ execCount["latest"] > 0 => execCount["uname"] = 1
    /\ FailedAt("latest") => execCount["download"] = 0
    /\ (\E c \in StartSteps : execCount[c] > 0) =>
          /\ \A c \in InstallSteps : execCount[c] = 1
          /\ tmpFile = FALSE
    /\ PollerTouched =>
          /\ \A c \in StartSteps : execCount[c] = 1
          /\ kubeWrites = 1
    /\ \A k \in ReportedBy(1) :
          /\ failures[k][2][1] = "Failed to install k0s" =>
                /\ \A c \in StartSteps : execCount[c] = 0
                /\ kubeWrites = 0
                /\ ~PollerTouched
          /\ failures[k][2][1] = "Failed to start k0s" => ~PollerTouched

\* the controller failed to start: the install is complete, nothing later ran
C16_Witness ==
    /\ failures = <<<<1, <<"Failed to start k0s", "exec", "ctl_start">>>>>>
    /\ execCount["version"] = 1
    /\ execCount["ctl_install"] = 1
    /\ execCount["kubeconfig"] = 0
    /\ ~PollerTouched

InPoller == pc \in PollPcs \cup DiagPcs \cup {"throw_timeout"}

\* C17: the poller is entered only when wait-for-ready is exactly 'true' and
\* install and start succeeded, and then a successful main went through it;
\* for any other value no probe and no diagnostic runs, no timeout is
\* reported, and main is done right after startK0s.
C17_PollerOnlyOnRequest ==
    /\ (InPoller \/ PollerTouched \/ diagCalls > 0) =>
          /\ inWait = "true"
          /\ \A c \in InstallSteps \cup StartSteps : execCount[c] = 1
          /\ outKubeconfig # ""
    /\ inWait # "true" =>
          /\ ~PollerTouched
          /\ ~InPoller
          /\ \A k \in ReportedBy(1) :
                failures[k][2][1] # "Failed waiting for cluster"
    /\ (inWait # "true" /\ FirstRun /\ outKubeconfig # "") =>
          /\ pc \in {"after_start", "done"}
          /\ failures = <<>>
    /\ (inWait = "true" /\ FirstRun /\ pc = "done") => result = "Ready"

\* wait-for-ready unset: main is done after startK0s, nothing was probed
C17_Witness ==
    /\ inWait = ""
    /\ FirstRun
    /\ pc = "done"
    /\ outKubeconfig # ""
    /\ \A p \in Probes : execCount[p] = 0

\* C18: a cycle opens with the deadline check and then probes service, API,
\* nodes, pods in that order, each only after the layer before it passed in
\* this cycle; the cycle that sleeps stopped at its first failing layer and
\* probed nothing after it; one sleep separates two cycles.
C18_OrderedShortCircuit ==
    /\ pc = "status" =>
          /\ statusResult = NotRun /\ kubectlResult = NotRun
          /\ nodesReady = NotRun /\ podsRunning = NotRun
          /\ \A p \in Probes : probedIn[p] < cycle
    /\ (pc = "cluster_info" \/ kubectlResult # NotRun) => statusResult = 0
    /\ (pc = "nodes" \/ nodesReady # NotRun) =>
          statusResult = 0 /\ kubectlResult = 0
    /\ (pc = "pods" \/ podsRunning # NotRun) =>
          /\ statusResult = 0 /\ kubectlResult = 0
          /\ nodesReady \notin {0, NotRun}
    /\ pc = "cluster_info" => kubectlResult = NotRun
    /\ pc = "nodes" => nodesReady = NotRun
    /\ pc = "pods" => podsRunning = NotRun
    /\ pc = "sleep" =>
          \/ /\ statusResult \notin {0, NotRun}
             /\ kubectlResult = NotRun /\ nodesReady = NotRun
             /\ podsRunning = NotRun
          \/ /\ statusResult = 0 /\ kubectlResult \notin {0, NotRun}
             /\ nodesReady = NotRun /\ podsRunning = NotRun
          \/ /\ statusResult = 0 /\ kubectlResult = 0 /\ nodesReady = 0
             /\ podsRunning = NotRun
          \/ /\ statusResult = 0 /\ kubectlResult = 0
             /\ nodesReady \notin {0, NotRun} /\ podsRunning = 0
    /\ (pc \in ProbePcs \cup {"sleep"}) =>
          /\ (statusResult # NotRun <=> probedIn["status"] = cycle)
          /\ (kubectlResult # NotRun <=> probedIn["cluster_info"] = cycle)
          /\ (nodesReady # NotRun <=> probedIn["nodes"] = cycle)
          /\ (podsRunning # NotRun <=> probedIn["pods"] = cycle)
          /\ sleeps = cycle - 1
    /\ pc = "deadline" => sleeps = cycle
    /\ FirstRun => execCount["status"] <= cycle
    /\ execCount["cluster_info"] <= execCount["status"]
    /\ execCount["nodes"] <= execCount["cluster_info"]
    /\ execCount["pods"] <= execCount["nodes"]

\* the second cycle stopped at the API probe; the nodes were last checked
\* in the first cycle
C18_Witness ==
    /\ pc = "sleep"
    /\ cycle = 2
    /\ statusResult = 0
    /\ kubectlResult = 1
    /\ nodesReady = NotRun
    /\ probedIn["nodes"] = 1
    /\ execCount["nodes"] = 1

\* C19: the node layer and the pod layer pass exactly when grep selects no
\* line, so a listing that failed, or listed nothing, passes like a listing
\* of healthy lines only; Ready is reported on such a cycle.
C19_FailedListingPasses ==
    /\ nodesReady # NotRun =>
          (nodesReady # 0 <=>
              \/ ~nodeList.ok
              \/ \A i \in 1..Len(nodeList.lines) : nodeList.lines[i] = "Ready")
    /\ podsRunning # NotRun =>
          (podsRunning # 0 <=>
              \/ ~podList.ok
              \/ \A i \in 1..Len(podList.lines) :
                    podList.lines[i] \in {"Running", "Completed"})
    /\ (nodesReady # NotRun /\ (~nodeList.ok \/ nodeList.lines = <<>>)) =>
          nodesReady = 1 /\ (pc = "pods" \/ probedIn["pods"] = cycle)
    /\ (podsRunning # NotRun /\ (~podList.ok \/ podList.lines = <<>>)) =>
          podsRunning = 1 /\ result = "Ready"

\* Ready reported in a cycle in which both listing commands failed
C19_Witness ==
    /\ result = "Ready"
    /\ nodesReady = 1
    /\ podsRunning = 1
    /\ ~nodeList.ok
    /\ ~podList.ok

\* C20: the kubeconfig output and the KUBECONFIG variable are equal in every
\* state, both unset or both <home>/.kube/config; they are set only after
\* the controller was installed and started, the kubeconfig extracted and
\* written and chmod 600 succeeded; a run that failed in startK0s has
\* neither, a main that succeeded has both.
C20_KubeconfigPublishedTogether ==
    /\ outKubeconfig = envKubeconfig
    /\ outKubeconfig \in {"", "<home>/.kube/config"}
    /\ outKubeconfig # "" =>
          /\ \A c \in StartSteps : execCount[c] = 1
          /\ kubeWrites = 1
          /\ kubeMode = <<6, 0, 0>>
    /\ \A k \in ReportedBy(1) :
          failures[k][2][1] \in {"Failed to install k0s", "Failed to start k0s"}
              => outKubeconfig = "" /\ envKubeconfig = ""
    /\ (pc = "done" /\ FirstRun) => outKubeconfig = "<home>/.kube/config"
    /\ (pc \in {"ctl_install", "ctl_start", "grace", "mkdir", "kubeconfig",
                "write", "chmod"}) => outKubeconfig = ""

\* chmod failed after the file was written: nothing is published
C20_Witness ==
    /\ failures = <<<<1, <<"Failed to start k0s", "exec", "chmod">>>>>>
    /\ kubeWrites = 1
    /\ outKubeconfig = ""
    /\ envKubeconfig = ""

====
